---- MODULE Spec2Model ----
(***************************************************************************)
(* Operation log (src/src/oplog.rs) and protocol messages                  *)
(* (src/src/message.rs) of the two-phase-commit deployment.                *)
(*                                                                         *)
(* One process is modelled: its process-wide COUNTER, one backing file,    *)
(* the OpLog objects built on that file by OpLog::new or OpLog::from_file, *)
(* and the threads that call append, read, arc and generate.  An append    *)
(* is split into the statements of its body, so that readers holding a     *)
(* handle from arc() interleave with it.  The file system is taken to be   *)
(* fault free apart from the access mode of a handle: File::create gives a *)
(* write-only handle, File::open a read-only one.                          *)
(*                                                                         *)
(* The consistency checker (src/src/checker.rs) runs after the logs are    *)
(* written: check_last_run loads coordinator.log and each                  *)
(* participant_<i>.log with from_file and hands them to check_participant. *)
(***************************************************************************)
EXTENDS Integers, Sequences, FiniteSets, TLC

VARIABLES
    COUNTER,   \* message.rs: static COUNTER: AtomicU32
    issued,    \* the uids returned by the calls of generate, in call order
    file,      \* the backing file: whether it exists, and its lines
    flushed,   \* how many lines of the file have been written and flushed
    oplog,     \* the OpLog objects: seqno, log_arc (mutex + map), path, lf
    borrow,    \* which thread holds the exclusive (&mut self) borrow of an OpLog
    frame,     \* each thread's call frame: position and locals
    chk        \* the run of check_last_run: its inputs, position, locals and output

vars == <<COUNTER, issued, file, flushed, oplog, borrow, frame, chk>>

----------------------------------------------------------------------------
(* Bounds *)

MaxCounter == 4      \* generate is called while COUNTER < MaxCounter
MaxFileLen == 3      \* lines of a pre-existing file
MaxUid == 2          \* uids found in a pre-existing file

\* COUNTER and seqno are u32.  Every counter of the model stays below MaxCounter
\* and every uid of a file below MaxUid, far from the wrap at 2^32, so the
\* increments are written without the modulus.

----------------------------------------------------------------------------
(* Protocol messages *)

MessageType ==
    {"ClientRequest", "CoordinatorPropose", "ParticipantVoteCommit",
     "ParticipantVoteAbort", "CoordinatorAbort", "CoordinatorCommit",
     "ClientResultCommit", "ClientResultAbort", "CoordinatorExit"}

Fields == {"mtype", "uid", "txid", "senderid", "opid"}

\* the arguments append and generate are called with
Args ==
    { [mtype |-> "CoordinatorCommit", txid |-> "c0_tx1", senderid |-> "coordinator", opid |-> 1],
      [mtype |-> "ParticipantVoteCommit", txid |-> "c0_tx2", senderid |-> "participant_0", opid |-> 2] }

NoArgs == [mtype |-> "none", txid |-> "", senderid |-> "", opid |-> 0]

NoMsg == [mtype |-> "none", uid |-> 0, txid |-> "", senderid |-> "", opid |-> 0]

\* kind, transaction_id, sender_id and operation_id of a message
Payload(pm) ==
    [mtype |-> pm.mtype, txid |-> pm.txid, senderid |-> pm.senderid, opid |-> pm.opid]

\* AtomicU32::fetch_add(1, SeqCst): returns the previous value, stores value + 1
fetch_add_load(c) == [ret |-> c, val |-> c]

fetch_add_post(c) == [ret |-> c + 1, val |-> c + 1]

fetch_add(c) == [ret |-> c, val |-> c + 1]

instantiate(t, u, tid, sid, oid) ==
    [mtype |-> t, uid |-> u, txid |-> tid, senderid |-> sid, opid |-> oid]

\* ProtocolMessage::generate on counter value c: the message and the new counter
generate(a, c) ==
    [pm |-> instantiate(a.mtype, fetch_add(c).ret, a.txid, a.senderid, a.opid),
     counter |-> fetch_add(c).val]

\* serde_json::to_writer: the message as one JSON object
to_writer(pm) ==
    [json |-> TRUE,
     obj |-> [mtype |-> pm.mtype, uid |-> pm.uid, txid |-> pm.txid,
              senderid |-> pm.senderid, opid |-> pm.opid]]

\* ProtocolMessage::from_string: Err when the text is not JSON, a field is
\* missing, or mtype names no variant; the unwraps turn Err into a panic
from_string(line) ==
    IF line.json /\ Fields \subseteq DOMAIN line.obj
    THEN IF line.obj.mtype \in MessageType
         THEN [ok |-> TRUE,
               pm |-> instantiate(line.obj.mtype, line.obj.uid, line.obj.txid,
                                  line.obj.senderid, line.obj.opid)]
         ELSE [ok |-> FALSE, pm |-> NoMsg]
    ELSE [ok |-> FALSE, pm |-> NoMsg]

----------------------------------------------------------------------------
(* HashMap<u32, ProtocolMessage> *)

EmptyMap == [k \in {} |-> NoMsg]

Insert(m, k, v) == [x \in (DOMAIN m) \cup {k} |-> IF x = k THEN v ELSE m[x]]

Max(S) == IF S = {} THEN 0 ELSE CHOOSE x \in S : \A y \in S : y <= x

----------------------------------------------------------------------------
(* Threads, objects, files *)

Writers == {"w1", "w2"}     \* threads that append to the log made by new
Readers == {"rd"}           \* threads that read it, by read or by an arc() handle
Loaders == {"ld1", "ld2"}   \* threads that call from_file; each owns its result
Threads == Writers \cup Readers \cup Loaders

Objs == {"live"} \cup Loaders   \* "live" is made by new, the others by from_file

Path == "coordinator.log"

NoFile == [exists |-> FALSE, lines |-> << >>]

\* a line that is not JSON, and a JSON object without its opid field
BadLines ==
    { [json |-> FALSE, obj |-> [raw |-> "garbage"]],
      [json |-> TRUE, obj |-> [mtype |-> "CoordinatorCommit", uid |-> 1,
                               txid |-> "c0_tx1", senderid |-> "coordinator"]] }

GoodLines ==
    { to_writer(instantiate(a.mtype, u, a.txid, a.senderid, a.opid)) :
        a \in Args, u \in 1..MaxUid }

SeqsUpTo(S, n) == UNION { [1..k -> S] : k \in 0..n }

\* the files a process may find at Path: none, or any lines an earlier run left
OldFiles ==
    {NoFile} \cup
    { [exists |-> TRUE, lines |-> ls] : ls \in SeqsUpTo(GoodLines \cup BadLines, MaxFileLen) }

NoLog ==
    [made |-> FALSE, seqno |-> 0,
     log_arc |-> [holder |-> "none", poisoned |-> FALSE, data |-> EmptyMap],
     path |-> "", lf |-> [mode |-> "closed", pos |-> 0]]

\* check_last_run has not been called
NoRun ==
    [pc |-> "idle", num_participants |-> 0, coord |-> NoFile,
     committed |-> EmptyMap, aborted |-> EmptyMap, num_commit |-> 0, num_abort |-> 0,
     pid |-> 0, pfile |-> NoFile, plog |-> EmptyMap,
     out |-> << >>, results |-> << >>, why |-> "none"]

IdleFrame ==
    [pc |-> "idle", self |-> "live", arg |-> NoArgs, id |-> 0, pm |-> NoMsg,
     seqno |-> 0, l |-> EmptyMap, pos |-> 0, seen |-> EmptyMap]

\* a panic unwinds the thread: it never runs again
Panicked(t) == [frame EXCEPT ![t].pc = "panicked"]

\* calls that will still reach generate
InFlight == Cardinality({ t \in Threads : frame[t].pc \in {"lock", "seqno", "generate"} })

Budget == COUNTER + InFlight < MaxCounter

----------------------------------------------------------------------------
(* ProtocolMessage::generate, called outside append *)

create(t, a) ==
    /\ frame[t].pc = "idle"
    /\ Budget
    /\ COUNTER' = generate(a, COUNTER).counter
    /\ issued' = Append(issued, generate(a, COUNTER).pm.uid)
    /\ UNCHANGED <<file, flushed, oplog, borrow, frame, chk>>

----------------------------------------------------------------------------
(* OpLog::new *)

\* File::create: creates the file or truncates it; the handle is write-only
File_create(f) == [exists |-> TRUE, lines |-> << >>]

new(o) ==
    /\ ~oplog[o].made
    /\ file' = File_create(file)
    /\ flushed' = 0
    /\ oplog' = [oplog EXCEPT ![o] =
                    [made |-> TRUE, seqno |-> 0,
                     log_arc |-> [holder |-> "none", poisoned |-> FALSE, data |-> EmptyMap],
                     path |-> Path, lf |-> [mode |-> "w", pos |-> 0]]]
    /\ UNCHANGED <<COUNTER, issued, borrow, frame, chk>>

----------------------------------------------------------------------------
(* OpLog::from_file *)

\* the loop body after the parse: track the largest uid, insert under pm.uid
loop_body_renumber(st, pm) ==
    [seqno |-> st.seqno + 1, l |-> Insert(st.l, st.seqno + 1, pm)]

\* a variant that keeps the entry already stored under the uid
loop_body_keep_first(st, pm) ==
    [seqno |-> IF pm.uid > st.seqno THEN pm.uid ELSE st.seqno,
     l |-> IF pm.uid \in DOMAIN st.l THEN st.l ELSE Insert(st.l, pm.uid, pm)]

loop_body(st, pm) ==
    [seqno |-> IF pm.uid > st.seqno THEN pm.uid ELSE st.seqno,
     l |-> Insert(st.l, pm.uid, pm)]

\* File::open(fpath).unwrap()
from_file_open(t) ==
    /\ frame[t].pc = "idle"
    /\ ~oplog[t].made
    /\ frame' = IF file.exists
                THEN [frame EXCEPT ![t] = [IdleFrame EXCEPT !.pc = "read_line", !.self = t]]
                ELSE Panicked(t)
    /\ UNCHANGED <<COUNTER, issued, file, flushed, oplog, borrow, chk>>

\* variants of the loop's iteration: one that creates the message anew with
\* generate, one that steps over a line that does not parse
from_file_line_regen(t) ==
    /\ frame[t].pc = "read_line"
    /\ frame[t].pos < Len(file.lines)
    /\ LET r  == from_string(file.lines[frame[t].pos + 1])
           g  == generate(Payload(r.pm), COUNTER)
           st == loop_body([seqno |-> frame[t].seqno, l |-> frame[t].l], g.pm)
       IN  /\ frame' = IF r.ok
                       THEN [frame EXCEPT ![t].seqno = st.seqno, ![t].l = st.l,
                                          ![t].pos = frame[t].pos + 1]
                       ELSE Panicked(t)
           /\ COUNTER' = IF r.ok THEN g.counter ELSE COUNTER
    /\ UNCHANGED <<issued, file, flushed, oplog, borrow, chk>>

from_file_line_skip(t) ==
    /\ frame[t].pc = "read_line"
    /\ frame[t].pos < Len(file.lines)
    /\ LET r  == from_string(file.lines[frame[t].pos + 1])
           st == loop_body([seqno |-> frame[t].seqno, l |-> frame[t].l], r.pm)
       IN  frame' = IF r.ok
                    THEN [frame EXCEPT ![t].seqno = st.seqno, ![t].l = st.l,
                                       ![t].pos = frame[t].pos + 1]
                    ELSE [frame EXCEPT ![t].pos = frame[t].pos + 1]
    /\ UNCHANGED <<COUNTER, issued, file, flushed, oplog, borrow, chk>>

\* read_line returned len > 0: parse the line, insert it
from_file_line(t) ==
    /\ frame[t].pc = "read_line"
    /\ frame[t].pos < Len(file.lines)
    /\ LET r  == from_string(file.lines[frame[t].pos + 1])
           st == loop_body([seqno |-> frame[t].seqno, l |-> frame[t].l], r.pm)
       IN  frame' = IF r.ok
                    THEN [frame EXCEPT ![t].seqno = st.seqno, ![t].l = st.l,
                                       ![t].pos = frame[t].pos + 1]
                    ELSE Panicked(t)
    /\ UNCHANGED <<COUNTER, issued, file, flushed, oplog, borrow, chk>>

\* read_line returned 0: end of file, the OpLog is built around the read handle
from_file_return(t) ==
    /\ frame[t].pc = "read_line"
    /\ frame[t].pos >= Len(file.lines)
    /\ oplog' = [oplog EXCEPT ![t] =
                    [made |-> TRUE, seqno |-> frame[t].seqno,
                     log_arc |-> [holder |-> "none", poisoned |-> FALSE, data |-> frame[t].l],
                     path |-> Path, lf |-> [mode |-> "r", pos |-> frame[t].pos]]]
    /\ frame' = [frame EXCEPT ![t] = IdleFrame]
    /\ UNCHANGED <<COUNTER, issued, file, flushed, borrow, chk>>

----------------------------------------------------------------------------
(* OpLog::append, one action per statement of its body *)

\* a write at the handle's cursor: the line lands at position pos + 1
write_rewind(lines, pos, line) == <<line>> \o SubSeq(lines, 2, Len(lines))

write(lines, pos, line) ==
    SubSeq(lines, 1, pos) \o <<line>> \o SubSeq(lines, pos + 2, Len(lines))

\* self.lf.flush(): everything written so far is flushed
flush_noop(n, len) == n

flush(n, len) == len

\* log.insert(id, pm): the key is the local id, the value the generated message
log_key_uid(id, pm) == pm.uid

log_key(id, pm) == id

\* the call: append takes &mut self, so one thread at a time is inside it
append_call(t, o, a) ==
    /\ frame[t].pc = "idle"
    /\ oplog[o].made
    /\ borrow[o] = "none"
    /\ Budget
    /\ borrow' = [borrow EXCEPT ![o] = t]
    /\ frame' = [frame EXCEPT ![t] = [IdleFrame EXCEPT !.pc = "lock", !.self = o, !.arg = a]]
    /\ UNCHANGED <<COUNTER, issued, file, flushed, oplog, chk>>

\* lck.lock().unwrap(): blocks while the mutex is held, panics when it is poisoned
append_lock(t) ==
    /\ frame[t].pc = "lock"
    /\ oplog[frame[t].self].log_arc.holder = "none"
    /\ IF oplog[frame[t].self].log_arc.poisoned
       THEN /\ frame' = Panicked(t)
            /\ UNCHANGED oplog
       ELSE /\ oplog' = [oplog EXCEPT ![frame[t].self].log_arc.holder = t]
            /\ frame' = [frame EXCEPT ![t].pc = "seqno"]
    /\ UNCHANGED <<COUNTER, issued, file, flushed, borrow, chk>>

\* self.seqno += 1; let id = self.seqno
append_seqno(t) ==
    /\ frame[t].pc = "seqno"
    /\ oplog' = [oplog EXCEPT ![frame[t].self].seqno = @ + 1]
    /\ frame' = [frame EXCEPT ![t].id = oplog[frame[t].self].seqno + 1,
                              ![t].pc = "generate"]
    /\ UNCHANGED <<COUNTER, issued, file, flushed, borrow, chk>>

\* let pm = ProtocolMessage::generate(t, tid, sender, op)
append_generate(t) ==
    /\ frame[t].pc = "generate"
    /\ COUNTER' = generate(frame[t].arg, COUNTER).counter
    /\ issued' = Append(issued, generate(frame[t].arg, COUNTER).pm.uid)
    /\ frame' = [frame EXCEPT ![t].pm = generate(frame[t].arg, COUNTER).pm,
                              ![t].pc = "to_writer"]
    /\ UNCHANGED <<file, flushed, oplog, borrow, chk>>

\* serde_json::to_writer(&mut self.lf, &pm).unwrap(); writeln!(&mut self.lf).unwrap()
\* a handle opened by File::open is read-only: the write fails and unwrap panics,
\* the unwinding drops the guard and poisons the mutex
\* (the bytes of one record are taken to reach the file in one piece: a
\* from_file racing with the write reads the whole line or none of it)
append_to_writer(t) ==
    /\ frame[t].pc = "to_writer"
    /\ IF oplog[frame[t].self].lf.mode = "w"
       THEN /\ file' = [file EXCEPT !.lines =
                          write(@, oplog[frame[t].self].lf.pos, to_writer(frame[t].pm))]
            /\ oplog' = [oplog EXCEPT ![frame[t].self].lf.pos = @ + 1]
            /\ frame' = [frame EXCEPT ![t].pc = "flush"]
       ELSE /\ oplog' = [oplog EXCEPT ![frame[t].self].log_arc.holder = "none",
                                      ![frame[t].self].log_arc.poisoned = TRUE]
            /\ frame' = Panicked(t)
            /\ UNCHANGED file
    /\ UNCHANGED <<COUNTER, issued, flushed, borrow, chk>>

\* self.lf.flush().unwrap()
append_flush(t) ==
    /\ frame[t].pc = "flush"
    /\ flushed' = flush(flushed, Len(file.lines))
    /\ frame' = [frame EXCEPT ![t].pc = "insert"]
    /\ UNCHANGED <<COUNTER, issued, file, oplog, borrow, chk>>

\* log.insert(id, pm); the return drops the guard and ends the borrow
append_insert(t) ==
    /\ frame[t].pc = "insert"
    /\ oplog' = [oplog EXCEPT
                    ![frame[t].self].log_arc.data =
                        Insert(@, log_key(frame[t].id, frame[t].pm), frame[t].pm),
                    ![frame[t].self].log_arc.holder = "none"]
    /\ borrow' = [borrow EXCEPT ![frame[t].self] = "none"]
    /\ frame' = [frame EXCEPT ![t] = IdleFrame]
    /\ UNCHANGED <<COUNTER, issued, file, flushed, chk>>

----------------------------------------------------------------------------
(* OpLog::read and OpLog::arc *)

\* read(&mut self, offset): lock, index, clone; indexing a missing key panics
read(t, o, offset) ==
    /\ frame[t].pc = "idle"
    /\ oplog[o].made
    /\ borrow[o] = "none"
    /\ oplog[o].log_arc.holder = "none"
    /\ IF oplog[o].log_arc.poisoned
       THEN /\ frame' = Panicked(t)
            /\ borrow' = [borrow EXCEPT ![o] = t]
            /\ UNCHANGED oplog
       ELSE IF offset \in DOMAIN oplog[o].log_arc.data
            THEN /\ frame' = [frame EXCEPT ![t].self = o,
                                ![t].seen = Insert(EmptyMap, offset, oplog[o].log_arc.data[offset])]
                 /\ UNCHANGED <<oplog, borrow>>
            ELSE /\ frame' = Panicked(t)
                 /\ borrow' = [borrow EXCEPT ![o] = t]
                 /\ oplog' = [oplog EXCEPT ![o].log_arc.poisoned = TRUE]
    /\ UNCHANGED <<COUNTER, issued, file, flushed, chk>>

\* a thread holding a clone of the Arc from arc() locks the map and looks at it
arc_lock(t, o) ==
    /\ frame[t].pc = "idle"
    /\ oplog[o].made
    /\ oplog[o].log_arc.holder = "none"
    /\ IF oplog[o].log_arc.poisoned
       THEN /\ frame' = Panicked(t)
            /\ UNCHANGED oplog
       ELSE /\ oplog' = [oplog EXCEPT ![o].log_arc.holder = t]
            /\ frame' = [frame EXCEPT ![t].pc = "view", ![t].self = o,
                                      ![t].seen = oplog[o].log_arc.data]
    /\ UNCHANGED <<COUNTER, issued, file, flushed, borrow, chk>>

\* the guard goes out of scope
arc_unlock(t) ==
    /\ frame[t].pc = "view"
    /\ oplog' = [oplog EXCEPT ![frame[t].self].log_arc.holder = "none"]
    /\ frame' = [frame EXCEPT ![t] = IdleFrame]
    /\ UNCHANGED <<COUNTER, issued, file, flushed, borrow, chk>>

----------------------------------------------------------------------------
(* Spec: a process makes a log with new, appends to it from several        *)
(* threads while other threads read it, and the file is replayed           *)

Init ==
    /\ COUNTER = 1
    /\ issued = << >>
    /\ file \in {NoFile, [exists |-> TRUE, lines |-> <<to_writer(instantiate("CoordinatorExit", 1, "c9_tx9", "coordinator", 9))>>]}
    /\ flushed = Len(file.lines)
    /\ oplog = [o \in Objs |-> NoLog]
    /\ borrow = [o \in Objs |-> "none"]
    /\ frame = [t \in Threads |-> IdleFrame]
    /\ chk = NoRun

Next ==
    \/ new("live")
    \/ \E t \in Writers, a \in Args : create(t, a)
    \/ \E t \in Writers, a \in Args : append_call(t, "live", a)
    \/ \E t \in Writers : append_lock(t)
    \/ \E t \in Writers : append_seqno(t)
    \/ \E t \in Writers : append_generate(t)
    \/ \E t \in Writers : append_to_writer(t)
    \/ \E t \in Writers : append_flush(t)
    \/ \E t \in Writers : append_insert(t)
    \/ \E t \in Readers, k \in 1..MaxCounter : read(t, "live", k)
    \/ \E t \in Readers : arc_lock(t, "live")
    \/ \E t \in Readers : arc_unlock(t)
    \/ oplog["live"].made /\ from_file_open("ld1")
    \/ from_file_line("ld1")
    \/ from_file_return("ld1")

Spec == Init /\ [][Next]_vars

----------------------------------------------------------------------------
(* SpecReplay: a fresh process finds a file, replays it with from_file     *)
(* (twice), and appends to the logs it got                                 *)

InitReplay ==
    /\ COUNTER = 1
    /\ issued = << >>
    /\ file \in OldFiles
    /\ flushed = Len(file.lines)
    /\ oplog = [o \in Objs |-> NoLog]
    /\ borrow = [o \in Objs |-> "none"]
    /\ frame = [t \in Threads |-> IdleFrame]
    /\ chk = NoRun

NextReplay ==
    \/ \E t \in Loaders : from_file_open(t)
    \/ \E t \in Loaders : from_file_line(t)
    \/ \E t \in Loaders : from_file_return(t)
    \/ \E t \in Loaders, a \in Args : append_call(t, t, a)
    \/ \E t \in Loaders : append_lock(t)
    \/ \E t \in Loaders : append_seqno(t)
    \/ \E t \in Loaders : append_generate(t)
    \/ \E t \in Loaders : append_to_writer(t)

SpecReplay == InitReplay /\ [][NextReplay]_vars

----------------------------------------------------------------------------
(* checker.rs: check_participant and check_last_run *)

MaxParticipants == 2   \* num_participants
MaxCoordLen == 2       \* lines of coordinator.log
MaxLogLen == 3         \* lines of a participant_<i>.log

\* OpLog::from_file as the checker calls it, from File::open to the return
RECURSIVE replay(_, _)
replay(lines, st) ==
    IF lines = << >>
    THEN [ok |-> TRUE, seqno |-> st.seqno, l |-> st.l]
    ELSE IF from_string(Head(lines)).ok
         THEN replay(Tail(lines), loop_body(st, from_string(Head(lines)).pm))
         ELSE [ok |-> FALSE, seqno |-> 0, l |-> EmptyMap]

from_file(f) ==
    IF f.exists
    THEN replay(f.lines, [seqno |-> 0, l |-> EmptyMap])
    ELSE [ok |-> FALSE, seqno |-> 0, l |-> EmptyMap]

\* map.iter().filter(|e| e.1.mtype == kind).map(clone).collect()
filter(m, kind) == [k \in { x \in DOMAIN m : m[x].mtype = kind } |-> m[k]]

\* the inner loops: how many entries of m carry txid
found(m, txid) == Cardinality({ k \in DOMAIN m : m[k].txid = txid })

\* result &= ...: the three count conditions
result_counts(npc, nplc, npa, num_commit, num_abort) ==
    /\ npc <= num_commit
    /\ nplc >= num_commit
    /\ npa <= num_abort

\* the three assert! on the counts: which one fails first, "none" when all hold
assert_counts_no_A(npc, nplc, npa, num_commit, num_abort) ==
    IF ~(num_commit <= nplc) THEN "B"
    ELSE IF ~(num_abort >= npa) THEN "C"
    ELSE "none"

assert_counts_strict(npc, nplc, npa, num_commit, num_abort) ==
    IF ~(npc < num_commit) THEN "A"
    ELSE IF ~(num_commit <= nplc) THEN "B"
    ELSE IF ~(num_abort >= npa) THEN "C"
    ELSE "none"

assert_counts_off(npc, nplc, npa, num_commit, num_abort) == "none"

assert_counts(npc, nplc, npa, num_commit, num_abort) ==
    IF ~(npc <= num_commit) THEN "A"
    ELSE IF ~(num_commit <= nplc) THEN "B"
    ELSE IF ~(num_abort >= npa) THEN "C"
    ELSE "none"

\* result &= found_local_txid == 1
result_txid(found_local_txid) == found_local_txid = 1

\* assert!(found_local_txid == 1)
assert_txid_at_least(found_local_txid) == found_local_txid >= 1

assert_txid_off(found_local_txid) == TRUE

assert_txid(found_local_txid) == found_local_txid = 1

\* the line println! writes
OkLine(participant, npc, num_commit, npa, num_abort) ==
    [participant |-> participant, committed |-> npc, num_commit |-> num_commit,
     aborted |-> npa, num_abort |-> num_abort]

\* check_participant: a failed assert! panics (why names the invariant), else
\* the OK line is printed and result returned.  The order in which the loop
\* visits coord_committed decides only which transaction panics first.
check_participant(participant, num_commit, num_abort, coord_committed, participant_log) ==
    LET participant_commit_map       == filter(participant_log, "CoordinatorCommit")
        participant_local_commit_map == filter(participant_log, "ParticipantVoteCommit")
        participant_abort_map        == filter(participant_log, "CoordinatorAbort")
        npc  == Cardinality(DOMAIN participant_commit_map)
        nplc == Cardinality(DOMAIN participant_local_commit_map)
        npa  == Cardinality(DOMAIN participant_abort_map)
        why0 == assert_counts(npc, nplc, npa, num_commit, num_abort)
        res0 == result_counts(npc, nplc, npa, num_commit, num_abort)
        fl(k) == found(participant_local_commit_map, coord_committed[k].txid)
        line == OkLine(participant, npc, num_commit, npa, num_abort)
    IN  IF why0 # "none"
        THEN [panic |-> TRUE, why |-> why0, result |-> FALSE, line |-> line]
        ELSE IF \E k \in DOMAIN coord_committed : ~assert_txid(fl(k))
             THEN [panic |-> TRUE, why |-> "D", result |-> FALSE, line |-> line]
             ELSE [panic |-> FALSE, why |-> "none",
                   result |-> res0 /\ \A k \in DOMAIN coord_committed : result_txid(fl(k)),
                   line |-> line]

\* the records a coordinator and a participant write
CoordArgs ==
    { [mtype |-> "CoordinatorCommit", txid |-> "c0_tx1", senderid |-> "coordinator", opid |-> 1],
      [mtype |-> "CoordinatorCommit", txid |-> "c0_tx2", senderid |-> "coordinator", opid |-> 2],
      [mtype |-> "CoordinatorAbort", txid |-> "c0_tx2", senderid |-> "coordinator", opid |-> 2] }

PartArgs ==
    { [mtype |-> "ParticipantVoteCommit", txid |-> "c0_tx1", senderid |-> "participant", opid |-> 1],
      [mtype |-> "CoordinatorCommit", txid |-> "c0_tx1", senderid |-> "coordinator", opid |-> 1],
      [mtype |-> "CoordinatorAbort", txid |-> "c0_tx1", senderid |-> "coordinator", opid |-> 1] }

LineOf(a, u) == to_writer(instantiate(a.mtype, u, a.txid, a.senderid, a.opid))

BadFile == [exists |-> TRUE, lines |-> <<[json |-> FALSE, obj |-> [raw |-> "garbage"]]>>]

\* coordinator.log: absent, unreadable, or records whose ids count up from 1
CoordFiles ==
    {NoFile, BadFile} \cup
    { [exists |-> TRUE, lines |-> [p \in 1..Len(ls) |-> LineOf(ls[p], p)]] :
        ls \in SeqsUpTo(CoordArgs, MaxCoordLen) }

\* participant_<i>.log: absent, unreadable, or records whose ids count up from
\* 1 or repeat the id 1
PartFiles ==
    {NoFile, BadFile} \cup
    { [exists |-> TRUE,
       lines |-> [p \in 1..Len(ls) |-> LineOf(ls[p][1], IF ls[p][2] THEN 1 ELSE p)]] :
        ls \in { x \in SeqsUpTo(PartArgs \X BOOLEAN, MaxLogLen) : Len(x) = 0 \/ ~x[1][2] } }

\* lines 126-150: load coordinator.log, split its records into committed and aborted
check_last_run_load ==
    /\ chk.pc = "idle"
    /\ LET coord_log == from_file(chk.coord)
       IN  chk' = IF coord_log.ok
                  THEN [chk EXCEPT
                          !.pc = "loop",
                          !.committed = filter(coord_log.l, "CoordinatorCommit"),
                          !.aborted = filter(coord_log.l, "CoordinatorAbort"),
                          !.num_commit = Cardinality(DOMAIN filter(coord_log.l, "CoordinatorCommit")),
                          !.num_abort = Cardinality(DOMAIN filter(coord_log.l, "CoordinatorAbort")),
                          !.pid = 0]
                  ELSE [chk EXCEPT !.pc = "panicked", !.why = "load"]
    /\ UNCHANGED <<COUNTER, issued, file, flushed, oplog, borrow, frame>>

\* lines 153-160, one iteration: load participant_<pid>.log (f is what the
\* participant left there; each file is opened once) and check it
check_last_run_iter(f) ==
    /\ chk.pc = "loop"
    /\ chk.pid < chk.num_participants
    /\ LET participant_oplog == from_file(f)
           r == check_participant(chk.pid, chk.num_commit, chk.num_abort,
                                  chk.committed, participant_oplog.l)
       IN  chk' = IF ~participant_oplog.ok
                  THEN [chk EXCEPT !.pc = "panicked", !.why = "load", !.pfile = f,
                                   !.plog = EmptyMap]
                  ELSE IF r.panic
                       THEN [chk EXCEPT !.pc = "panicked", !.why = r.why, !.pfile = f,
                                        !.plog = participant_oplog.l]
                       ELSE [chk EXCEPT !.pc = "checked", !.pfile = f,
                                        !.plog = participant_oplog.l,
                                        !.out = Append(@, r.line),
                                        !.results = Append(@, r.result)]
    /\ UNCHANGED <<COUNTER, issued, file, flushed, oplog, borrow, frame>>

\* line 160, the end of the loop body: the participant's log goes out of
\* scope, pid moves on
check_last_run_next ==
    /\ chk.pc = "checked"
    /\ chk' = [chk EXCEPT !.pc = "loop", !.pid = @ + 1, !.pfile = NoFile, !.plog = EmptyMap]
    /\ UNCHANGED <<COUNTER, issued, file, flushed, oplog, borrow, frame>>

\* the loop is over: check_last_run returns
check_last_run_return ==
    /\ chk.pc = "loop"
    /\ chk.pid >= chk.num_participants
    /\ chk' = [chk EXCEPT !.pc = "done"]
    /\ UNCHANGED <<COUNTER, issued, file, flushed, oplog, borrow, frame>>

(* SpecCheck: after a run, check_last_run(num_clients, num_requests,       *)
(* num_participants, log_dir) audits the logs it finds in log_dir          *)

InitCheck ==
    /\ COUNTER = 1
    /\ issued = << >>
    /\ file = NoFile
    /\ flushed = 0
    /\ oplog = [o \in Objs |-> NoLog]
    /\ borrow = [o \in Objs |-> "none"]
    /\ frame = [t \in Threads |-> IdleFrame]
    /\ chk \in { [NoRun EXCEPT !.coord = c, !.num_participants = n] :
                   c \in CoordFiles, n \in 0..MaxParticipants }

NextCheck ==
    \/ check_last_run_load
    \/ \E f \in PartFiles : check_last_run_iter(f)
    \/ check_last_run_next
    \/ check_last_run_return

SpecCheck == InitCheck /\ [][NextCheck]_vars

----------------------------------------------------------------------------
(* Properties *)

Data(o) == oplog[o].log_arc.data

\* the messages the lines of the file parse to
Parsed(i) == from_string(file.lines[i]).pm

FileUids == { Parsed(i).uid : i \in 1..Len(file.lines) }

\* from_file has returned a log to loader t, having read the file as it is now
Replayed(t) == oplog[t].made /\ oplog[t].lf.pos = Len(file.lines)

\* the thread inside append on o has incremented seqno and not yet inserted
MidAppend(o) ==
    /\ borrow[o] # "none"
    /\ frame[borrow[o]].pc \in {"generate", "to_writer", "flush", "insert"}

\* C1: once append has returned (its record is in the map of the log made by
\* new), a log that from_file builds from the file holds a record with the
\* same kind, transaction_id, sender_id and operation_id.
C1_AppendDurability ==
    Replayed("ld1") =>
        \A k \in DOMAIN Data("live") :
            \E j \in DOMAIN Data("ld1") :
                Payload(Data("ld1")[j]) = Payload(Data("live")[k])

C1_Witness ==
    /\ Replayed("ld1")
    /\ Cardinality(DOMAIN Data("live")) >= 2
    /\ \E j, k \in DOMAIN Data("live") : Payload(Data("live")[j]) # Payload(Data("live")[k])

\* C2: every key k of the live log's map is a key of the log from_file builds,
\* with the same kind, transaction_id, sender_id and operation_id under it, and
\* the id written to the file for a record is the key it has in memory.
C2_IdStability ==
    Replayed("ld1") =>
        \A k \in DOMAIN Data("live") :
            /\ k \in DOMAIN Data("ld1")
            /\ Payload(Data("ld1")[k]) = Payload(Data("live")[k])
            /\ Parsed(k).uid = k

\* C3: after N appends to a log made by new, from_file on its file gives a map
\* whose key set is exactly 1..N, whatever other messages the process created.
C3_DensityOnReplay ==
    (Replayed("ld1") /\ borrow["live"] = "none") =>
        DOMAIN Data("ld1") = 1..oplog["live"].seqno

\* C4: the keys of the live map are exactly 1..seqno; an append takes the key
\* seqno + 1, which is not in use; the k-th line of the file is the record
\* stored under key k, so file order is key order, also with several appenders.
C4_LiveSeqnoDense ==
    oplog["live"].made =>
        IF MidAppend("live")
        THEN /\ frame[borrow["live"]].id = oplog["live"].seqno
             /\ DOMAIN Data("live") = 1..(oplog["live"].seqno - 1)
             /\ frame[borrow["live"]].pc = "insert" =>
                   /\ log_key(frame[borrow["live"]].id, frame[borrow["live"]].pm)
                          = Max(DOMAIN Data("live")) + 1
                   /\ Len(file.lines) = oplog["live"].seqno
                   /\ Parsed(oplog["live"].seqno) = frame[borrow["live"]].pm
             /\ \A k \in DOMAIN Data("live") : Parsed(k) = Data("live")[k]
        ELSE /\ DOMAIN Data("live") = 1..oplog["live"].seqno
             /\ Len(file.lines) = oplog["live"].seqno
             /\ \A k \in DOMAIN Data("live") : Parsed(k) = Data("live")[k]

C4_Witness ==
    /\ oplog["live"].seqno = 2
    /\ DOMAIN Data("live") = {1, 2}
    /\ frame["w1"].pc = "lock"
    /\ borrow["live"] = "w1"
    /\ COUNTER = 3

\* C5: a reader that holds the lock of the shared map (through read or through
\* a handle from arc) sees under key k only a record that is already written
\* to the file and flushed.
C5_FlushBeforeVisible ==
    \A t \in Readers :
        \A k \in DOMAIN frame[t].seen :
            /\ k <= flushed
            /\ k <= Len(file.lines)
            /\ file.lines[k] = to_writer(frame[t].seen[k])

C5_Witness ==
    /\ frame["rd"].pc = "view"
    /\ DOMAIN frame["rd"].seen = {1}
    /\ \E w \in Writers : frame[w].pc = "lock"

\* C6: the K calls of generate made by the threads of the process, in any
\* interleaving, return K pairwise distinct ids.
C6_CounterUnique ==
    \A i, j \in 1..Len(issued) : i # j => issued[i] # issued[j]

C6_Witness ==
    /\ Len(issued) = 3
    /\ Cardinality(DOMAIN Data("live")) = 1
    /\ \E w \in Writers : frame[w].pc = "to_writer"

\* what from_file returned: keys, values and seqno against the file
C7_StoredIds ==
    \A t \in Loaders :
        oplog[t].made =>
            /\ DOMAIN Data(t) = FileUids
            /\ \A k \in DOMAIN Data(t) :
                  /\ Data(t)[k].uid = k
                  /\ \E i \in 1..Len(file.lines) : Parsed(i) = Data(t)[k]
            /\ borrow[t] = "none" => oplog[t].seqno = Max(FileUids)

\* a step of from_file leaves COUNTER and the ids given out alone
C7_CounterKept ==
    \A t \in Loaders :
        (frame[t].pc = "read_line" /\ frame'[t] # frame[t]) =>
            (COUNTER' = COUNTER /\ issued' = issued)

\* C7: from_file stores each parsed message under the id the file gives it,
\* the keys are the ids of the file, seqno is the largest of them (0 for an
\* empty file), and no step of from_file changes COUNTER.
C7_FromFilePreservesIds == []C7_StoredIds /\ [][C7_CounterKept]_vars

C7_Witness ==
    /\ oplog["ld1"].made
    /\ borrow["ld1"] = "none"
    /\ Len(file.lines) = 3
    /\ oplog["ld1"].seqno = 2
    /\ DOMAIN Data("ld1") = {2}

\* C8: every append to a log that from_file returned succeeds, takes the key
\* M + 1, and both that key and the id written for it differ from every id
\* of the file.
C8_AppendAfterReplay ==
    \A t \in Loaders :
        oplog[t].made =>
            /\ frame[t].pc # "panicked"
            /\ frame[t].pc = "to_writer" =>
                  /\ frame[t].id = Max(FileUids) + 1
                  /\ frame[t].id \notin FileUids
                  /\ frame[t].pm.uid \notin FileUids

\* C9: two calls of from_file on the unchanged file give the same keys, the
\* same message under each key, and the same seqno.
C9_ReplayIdempotent ==
    (oplog["ld1"].made /\ oplog["ld2"].made) =>
        /\ Data("ld1") = Data("ld2")
        /\ (borrow["ld1"] = "none" /\ borrow["ld2"] = "none") =>
              oplog["ld1"].seqno = oplog["ld2"].seqno

C9_Witness ==
    /\ oplog["ld1"].made /\ oplog["ld2"].made
    /\ borrow["ld1"] = "none" /\ borrow["ld2"] = "none"
    /\ DOMAIN Data("ld1") = {1, 2}
    /\ Len(file.lines) = 3

\* C10: from_file returns a log only if the file could be opened and every
\* line of it parsed; a line that does not parse, wherever it stands, ends the
\* load with a panic.
C10_MalformedLineFatal ==
    \A t \in Loaders :
        /\ oplog[t].made =>
              /\ file.exists
              /\ \A i \in 1..Len(file.lines) : from_string(file.lines[i]).ok
        /\ frame[t].pc = "read_line" =>
              \A i \in 1..frame[t].pos : from_string(file.lines[i]).ok

C10_Witness ==
    /\ frame["ld1"].pc = "panicked"
    /\ ~oplog["ld1"].made
    /\ frame["ld1"].pos = 1
    /\ Len(file.lines) = 3
    /\ from_string(file.lines[3]).ok

----------------------------------------------------------------------------
(* Properties of the checker *)

\* the coordinator's log and the log of the participant under examination, as loaded
CL == from_file(chk.coord).l

PL == chk.plog

Count(m, kind) == Cardinality({ k \in DOMAIN m : m[k].mtype = kind })

Votes(m, txid) ==
    { j \in DOMAIN m : m[j].mtype = "ParticipantVoteCommit" /\ m[j].txid = txid }

InvA(cl, pl) == Count(pl, "CoordinatorCommit") <= Count(cl, "CoordinatorCommit")

InvB(cl, pl) == Count(pl, "ParticipantVoteCommit") >= Count(cl, "CoordinatorCommit")

InvC(cl, pl) == Count(pl, "CoordinatorAbort") <= Count(cl, "CoordinatorAbort")

InvD(cl, pl) ==
    \A k \in DOMAIN cl :
        cl[k].mtype = "CoordinatorCommit" => Cardinality(Votes(pl, cl[k].txid)) = 1

\* check_participant has printed the OK line of participant chk.pid and returned
Passed == chk.pc = "checked"

\* an assert! of check_participant has failed on participant chk.pid
Failed == chk.pc = "panicked" /\ chk.why \in {"A", "B", "C", "D"}

\* C11: check_participant passes only if every transaction in the coordinator's
\* committed map has exactly one ParticipantVoteCommit entry with its
\* transaction_id in the participant's log; none at all is a violation.
C11_InvariantD == Passed => InvD(CL, PL)

C11_Witness ==
    /\ Failed /\ chk.why = "D"
    /\ Count(PL, "ParticipantVoteCommit") = 1
    /\ \E k \in DOMAIN chk.committed : Votes(PL, chk.committed[k].txid) = {}

\* C12: a participant file with two ParticipantVoteCommit records of one
\* transaction_id, which the coordinator committed once, never passes the
\* check, whatever ids the two records carry.
DupVote(f, c) ==
    \E i, j \in 1..Len(f.lines) :
        /\ i # j
        /\ from_string(f.lines[i]).pm.mtype = "ParticipantVoteCommit"
        /\ from_string(f.lines[j]).pm.mtype = "ParticipantVoteCommit"
        /\ from_string(f.lines[i]).pm.txid = from_string(f.lines[j]).pm.txid
        /\ Cardinality({ k \in 1..Len(c.lines) :
               /\ from_string(c.lines[k]).pm.mtype = "CoordinatorCommit"
               /\ from_string(c.lines[k]).pm.txid = from_string(f.lines[i]).pm.txid }) = 1

C12_DuplicateVoteDetected == Passed => ~DupVote(chk.pfile, chk.coord)

\* C13: check_participant passes only if the participant has at most
\* num_commit CoordinatorCommit entries, at least num_commit
\* ParticipantVoteCommit entries and at most num_abort CoordinatorAbort
\* entries, num_commit and num_abort being counted in the coordinator's log.
C13_CountInvariants ==
    /\ chk.pc \in {"loop", "checked", "done"} =>
          /\ chk.num_commit = Count(CL, "CoordinatorCommit")
          /\ chk.num_abort = Count(CL, "CoordinatorAbort")
    /\ Passed => (InvA(CL, PL) /\ InvB(CL, PL) /\ InvC(CL, PL))

C13_Witness ==
    /\ Passed
    /\ chk.num_commit = 1 /\ chk.num_abort = 1
    /\ Count(PL, "CoordinatorCommit") = 1
    /\ Count(PL, "CoordinatorAbort") = 1

\* C14: when invariants A, B, C and D hold between the two logs,
\* check_participant fails no assertion, returns true and prints the
\* participant's OK line.
C14_PassCase ==
    /\ Failed => ~(InvA(CL, PL) /\ InvB(CL, PL) /\ InvC(CL, PL) /\ InvD(CL, PL))
    /\ Passed =>
          /\ Len(chk.out) = chk.pid + 1
          /\ chk.out[chk.pid + 1] =
                OkLine(chk.pid, Count(PL, "CoordinatorCommit"), Count(CL, "CoordinatorCommit"),
                       Count(PL, "CoordinatorAbort"), Count(CL, "CoordinatorAbort"))
          /\ Len(chk.results) = chk.pid + 1
          /\ chk.results[chk.pid + 1] = TRUE

C14_Witness ==
    /\ Passed
    /\ Len(chk.coord.lines) = 2
    /\ Count(CL, "CoordinatorCommit") = 1 /\ Count(CL, "CoordinatorAbort") = 1
    /\ Len(chk.pfile.lines) = 3
    /\ Count(PL, "ParticipantVoteCommit") = 1
    /\ Count(PL, "CoordinatorCommit") = 1
    /\ Count(PL, "CoordinatorAbort") = 1

\* C15: in every OK line the participant's number of global-commit
\* acknowledgments equals num_commit, and its number of global aborts is at
\* most num_abort.
C15_ReportedCountsMatch ==
    \A i \in 1..Len(chk.out) :
        /\ chk.out[i].committed = chk.out[i].num_commit
        /\ chk.out[i].aborted <= chk.out[i].num_abort

\* what check_last_run has reached: a normal return only after every
\* participant passed; a failure at participant pid leaves OK lines for the
\* participants before pid alone
C16_Outcome ==
    /\ Passed => (InvA(CL, PL) /\ InvB(CL, PL) /\ InvC(CL, PL) /\ InvD(CL, PL))
    /\ chk.pc = "done" =>
          /\ chk.pid = chk.num_participants
          /\ Len(chk.out) = chk.num_participants
          /\ \A i \in 1..Len(chk.out) : chk.out[i].participant = i - 1
    /\ Failed =>
          /\ chk.pid < chk.num_participants
          /\ Len(chk.out) = chk.pid
          /\ ~(InvA(CL, PL) /\ InvB(CL, PL) /\ InvC(CL, PL) /\ InvD(CL, PL))

\* after a failure or the return nothing more is checked or printed
C16_Stops == chk.pc \in {"panicked", "done"} => chk' = chk

\* C16: check_last_run returns normally only if every participant
\* 0 .. num_participants-1 was loaded and satisfied invariants A-D; a violation
\* at participant i ends the run there, with no OK line for i and no check of
\* the participants after i.
C16_ViolationFatal == []C16_Outcome /\ [][C16_Stops]_vars

C16_Witness ==
    /\ Failed
    /\ chk.num_participants = 2
    /\ chk.pid = 0
    /\ chk.out = << >>

\* C17: if check_participant passes, every transaction_id the participant
\* recorded as CoordinatorCommit is one the coordinator recorded as
\* CoordinatorCommit, and likewise for CoordinatorAbort.
C17_OutcomesAgree ==
    Passed =>
        \A j \in DOMAIN PL :
            PL[j].mtype \in {"CoordinatorCommit", "CoordinatorAbort"} =>
                \E k \in DOMAIN CL : CL[k].mtype = PL[j].mtype /\ CL[k].txid = PL[j].txid

\* pass or violation of check_participant on the logs loaded from two files
Outcome(c, f) ==
    IF check_participant(0, Count(from_file(c).l, "CoordinatorCommit"),
                         Count(from_file(c).l, "CoordinatorAbort"),
                         filter(from_file(c).l, "CoordinatorCommit"),
                         from_file(f).l).panic
    THEN "violation" ELSE "pass"

Perms(n) == { q \in [1..n -> 1..n] : \A a, b \in 1..n : q[a] = q[b] => a = b }

Reorder(f, q) == [f EXCEPT !.lines = [p \in 1..Len(f.lines) |-> f.lines[q[p]]]]

\* the file with the id of line p replaced by q[p]
Renumber(f, q) ==
    [f EXCEPT !.lines = [p \in 1..Len(f.lines) |->
        [f.lines[p] EXCEPT !.obj = [f.lines[p].obj EXCEPT !.uid = q[p]]]]]

C19_PostIncrement ==
    Len(issued) > 0 => issued[Len(issued)] = COUNTER

\* C19: with COUNTER starting at 1, each call of generate increments COUNTER
\* and gives the message the value COUNTER held before the increment: the
\* first id is 1 and the n-th id is one greater than the (n-1)-th.
C19_PreIncrement ==
    /\ COUNTER = Len(issued) + 1
    /\ \A n \in 1..Len(issued) :
          /\ n = 1 => issued[n] = 1
          /\ n > 1 => issued[n] = issued[n - 1] + 1

C19_Witness ==
    /\ Len(issued) = 3
    /\ COUNTER = 4
    /\ oplog["live"].seqno = 1

\* C20: check_participant never returns false: it panics on a failed
\* assertion or returns true.
C20_NeverReturnsFalse ==
    \A i \in 1..Len(chk.results) : chk.results[i] = TRUE

C20_Witness ==
    /\ Failed /\ chk.why = "D"
    /\ Len(chk.results) = 1
    /\ chk.results[1] = TRUE

\* the lines of the file that carry id k, and the last of them
LinesOf(k) == { i \in 1..Len(file.lines) : Parsed(i).uid = k }

LastLineOf(k) == Max(LinesOf(k))

\* C21: when several lines of the file carry the same id, the log from_file
\* returns holds one entry for that id, the message of the last such line; the
\* map has as many entries as the file has distinct ids, and seqno is the
\* largest id of the file.
C21_LastLineWins ==
    \A t \in Loaders :
        oplog[t].made =>
            /\ \A k \in FileUids :
                  /\ k \in DOMAIN Data(t)
                  /\ Data(t)[k] = Parsed(LastLineOf(k))
            /\ Cardinality(DOMAIN Data(t)) = Cardinality(FileUids)
            /\ Cardinality(DOMAIN Data(t)) <= Len(file.lines)
            /\ borrow[t] = "none" => oplog[t].seqno = Max(FileUids)

\* a file of three lines, the first and the last with id 1 and different
\* payloads, has been loaded: two entries, the last line's under id 1
C21_Witness ==
    /\ oplog["ld1"].made
    /\ borrow["ld1"] = "none"
    /\ Len(file.lines) = 3
    /\ Parsed(1).uid = 1 /\ Parsed(2).uid = 2 /\ Parsed(3).uid = 1
    /\ Parsed(1) # Parsed(3)
    /\ Cardinality(DOMAIN Data("ld1")) = 2
    /\ Data("ld1")[1] = Parsed(3)
    /\ oplog["ld1"].seqno = 2

====
